---- MODULE Spec2Model ----
(***************************************************************************)
(* A model of zuri_nbt's encoding layer: the Reader and Writer traits      *)
(* (src/src/reader.rs, src/src/writer.rs) and the three encodings          *)
(* BigEndian, LittleEndian and NetworkLittleEndian (src/src/encoding.rs).  *)
(*                                                                         *)
(* Integers of 16, 32 and 64 bits are bit vectors: sequences of 0/1, least *)
(* significant bit first, of the width of the Rust type.  Bytes on the     *)
(* wire are naturals 0..255.  A string is the sequence of its UTF-8 bytes. *)
(***************************************************************************)
EXTENDS Integers, Sequences, FiniteSets, TLC

VARIABLES
    enc,    \* the encoding in use: T in tests::test
    kind,   \* the workload of this session: "stream", "single" or "parse"
    phase,  \* "write" while values are written, "read" once bytes are read
    sink,   \* the byte sink: [buf |-> bytes accepted, room |-> capacity left]
    src,    \* the byte source: the bytes not yet consumed
    wlog,   \* the values written successfully so far, with their byte counts
    nread,  \* how many entries of wlog have been read back
    res     \* the last operation and its result

vars == <<enc, kind, phase, sink, src, wlog, nread, res>>

(***************************************************************************)
(* Bounds of the model.                                                    *)
(***************************************************************************)
MaxOps == 2      \* values written in one "stream" session
MaxLen == 2      \* elements of an array, characters of a string
MaxRoom == 5     \* capacity of a bounded sink, 0..MaxRoom
MaxLead == 3     \* leading zero bytes of a crafted source
MaxRun == 10     \* length of the run of equal bytes ending a crafted source
MaxReads == 1    \* reads applied to one crafted source

(***************************************************************************)
(* Program constants.                                                      *)
(***************************************************************************)
I16_MAX == 32767
I32_MAX == 2147483647

Encodings == {"BigEndian", "LittleEndian", "NetworkLittleEndian"}

(***************************************************************************)
(* Rust's fixed-width integer operations on bit vectors.                   *)
(***************************************************************************)
\* n as uN, for a usize or u8 n below 2^31: the low w bits of n.
AsBits(n, w) == [i \in 1..w |-> IF i > 31 THEN 0 ELSE (n \div (2 ^ (i - 1))) % 2]

\* The natural number a bit vector of at most 31 significant bits stands for.
RECURSIVE BitsNat(_)
BitsNat(b) == IF b = <<>> THEN 0 ELSE b[1] + 2 * BitsNat(Tail(b))

\* u as u8
AsU8(u) == BitsNat(SubSeq(u, 1, 8))

\* !u
Not(u) == [i \in 1..Len(u) |-> 1 - u[i]]

\* a | b
BitOr(a, b) == [i \in 1..Len(a) |-> IF a[i] = 1 \/ b[i] = 1 THEN 1 ELSE 0]

\* u << k, for k below the width: the bits shifted out are dropped.
Shl(u, k) == [i \in 1..Len(u) |-> IF i - k >= 1 THEN u[i - k] ELSE 0]

\* u >> k on an unsigned: zeros are shifted in.
Shr(u, k) == [i \in 1..Len(u) |-> IF i + k <= Len(u) THEN u[i + k] ELSE 0]

\* x < 0 for a signed x
IsNeg(x) == x[Len(x)] = 1

\* u >= 0x80
Ge0x80(u) == \E i \in 8..Len(u) : u[i] = 1

\* x + 1, wrapping
RECURSIVE Inc(_)
Inc(x) ==
    IF x = <<>> THEN <<>>
    ELSE IF x[1] = 0 THEN <<1>> \o Tail(x)
    ELSE <<0>> \o Inc(Tail(x))

\* -x of a signed x, wrapping (two's complement)
Neg(x) == Inc(Not(x))

\* -x overflows exactly for the minimum of the type
NegOverflows(x) == x = [i \in 1..Len(x) |-> IF i = Len(x) THEN 1 ELSE 0]

\* The bits of one byte, and the byte of eight bits.
ByteBits(b) == [i \in 1..8 |-> (b \div (2 ^ (i - 1))) % 2]

Reverse(s) == [i \in 1..Len(s) |-> s[Len(s) + 1 - i]]

\* iN::from_le_bytes(buf)
from_le_bytes(buf) == [i \in 1..(8 * Len(buf)) |-> ByteBits(buf[((i - 1) \div 8) + 1])[((i - 1) % 8) + 1]]

\* iN::from_be_bytes(buf)
from_be_bytes(buf) == from_le_bytes(Reverse(buf))

\* x.to_le_bytes()
to_le_bytes(x) == [k \in 1..(Len(x) \div 8) |-> BitsNat(SubSeq(x, 8 * k - 7, 8 * k))]

\* x.to_be_bytes()
to_be_bytes(x) == Reverse(to_le_bytes(x))

(***************************************************************************)
(* Error paths (crate::err): a reason and a path of parts, root first.     *)
(***************************************************************************)
NoErr == [reason |-> <<"none">>, path |-> <<>>]
NoVal == <<"none">>

ErrorPath_new(reason) == [reason |-> reason, path |-> <<>>]

prepend(err, part) == [err EXCEPT !.path = <<part>> \o @]

Element(i) == <<"Element", i>>

\* The io::Error of read_exact at the end of the input, and of write_all on
\* a sink that accepts no more bytes, converted by `?`.
IoEof == ErrorPath_new(<<"Io", "UnexpectedEof">>)
IoFull == ErrorPath_new(<<"Io", "WriteZero">>)

(***************************************************************************)
(* Results.  A read gives [ok, val, rest, err, faults]: rest is the source *)
(* after the call.  A write gives [ok, out, err, faults]: out is the sink  *)
(* after the call.  faults collects what would panic in a checked build    *)
(* or silently wrap in an unchecked one: "shl", "neg", "cast".             *)
(***************************************************************************)
ROk(v, rest, f) == [ok |-> TRUE, val |-> v, rest |-> rest, err |-> NoErr, faults |-> f]
RErr(e, rest, f) == [ok |-> FALSE, val |-> NoVal, rest |-> rest, err |-> e, faults |-> f]
WOk(out, f) == [ok |-> TRUE, out |-> out, err |-> NoErr, faults |-> f]
WErr(e, out, f) == [ok |-> FALSE, out |-> out, err |-> e, faults |-> f]

\* Read::read_exact on a byte slice: n bytes or UnexpectedEof, the input drained.
read_exact(s, n) ==
    IF Len(s) >= n
    THEN ROk(SubSeq(s, 1, n), SubSeq(s, n + 1, Len(s)), {})
    ELSE RErr(IoEof, <<>>, {})

\* Write::write_all on a sink of bounded capacity (room < 0: unbounded, a
\* Vec): the bytes that fit are accepted, and the call fails if any is left.
write_all(k, bytes) ==
    IF k.room < 0 \/ Len(bytes) <= k.room
    THEN WOk([buf |-> k.buf \o bytes,
              room |-> IF k.room < 0 THEN k.room ELSE k.room - Len(bytes)], {})
    ELSE WErr(IoFull, [buf |-> k.buf \o SubSeq(bytes, 1, k.room), room |-> 0], {})

(***************************************************************************)
(* impl Reader for BigEndian, LittleEndian, NetworkLittleEndian: the       *)
(* fixed-width integers.                                                   *)
(***************************************************************************)
BigEndian_i16(s) ==
    LET r == read_exact(s, 2) IN IF r.ok THEN ROk(from_be_bytes(r.val), r.rest, {}) ELSE r

BigEndian_i32(s) ==
    LET r == read_exact(s, 4) IN IF r.ok THEN ROk(from_be_bytes(r.val), r.rest, {}) ELSE r

BigEndian_i64(s) ==
    LET r == read_exact(s, 8) IN IF r.ok THEN ROk(from_be_bytes(r.val), r.rest, {}) ELSE r

LittleEndian_i16(s) ==
    LET r == read_exact(s, 2) IN IF r.ok THEN ROk(from_le_bytes(r.val), r.rest, {}) ELSE r

\* LittleEndian::i32 decoding with from_be_bytes.
LittleEndian_i32_be(s) ==
    LET r == read_exact(s, 4) IN IF r.ok THEN ROk(from_be_bytes(r.val), r.rest, {}) ELSE r

LittleEndian_i32(s) ==
    LET r == read_exact(s, 4) IN IF r.ok THEN ROk(from_le_bytes(r.val), r.rest, {}) ELSE r

LittleEndian_i64(s) ==
    LET r == read_exact(s, 8) IN IF r.ok THEN ROk(from_le_bytes(r.val), r.rest, {}) ELSE r

NetworkLittleEndian_i16(s) ==
    LET r == read_exact(s, 2) IN IF r.ok THEN ROk(from_le_bytes(r.val), r.rest, {}) ELSE r

\* Reader::u8, which no encoding overrides.
Reader_u8(s) ==
    LET r == read_exact(s, 1) IN IF r.ok THEN ROk(r.val[1], r.rest, {}) ELSE r

(***************************************************************************)
(* The varint loop of NetworkLittleEndian::i32, ::i64 and ::string:        *)
(*   for i in (0..limit).step_by(7) { b = u8()?; v |= (b & 0x7f) << i;     *)
(*                                    if b & 0x80 == 0 { done } }          *)
(*   Err(Custom("varint overflows integer"))                               *)
(* v is the accumulator, of the width of its type.  A shift by the width   *)
(* or more is a fault; unchecked, the amount is taken modulo the width.    *)
(***************************************************************************)
VarintOverflow == ErrorPath_new(<<"Custom", "varint overflows integer">>)

RECURSIVE varint_loop(_, _, _, _, _)
varint_loop(s, v, i, limit, faults) ==
    IF i >= limit THEN RErr(VarintOverflow, s, faults)
    ELSE LET r == Reader_u8(s) IN
         IF ~r.ok THEN RErr(r.err, r.rest, faults)
         ELSE LET f2 == faults \cup (IF i >= Len(v) THEN {"shl"} ELSE {})
                  v2 == BitOr(v, Shl(AsBits(r.val % 128, Len(v)), i % Len(v)))
              IN  IF r.val < 128 THEN ROk(v2, r.rest, f2)
                  ELSE varint_loop(r.rest, v2, i + 7, limit, f2)

\* let x = (v >> 1) as iN; if v & 1 != 0 { -x } else { x }
unzigzag(v) == LET x == Shr(v, 1) IN IF v[1] = 1 THEN Neg(x) ELSE x

unzigzag_faults(v) ==
    LET x == Shr(v, 1) IN IF v[1] = 1 /\ NegOverflows(x) THEN {"neg"} ELSE {}

\* NetworkLittleEndian::i32 with one more round of the loop: (0..42).
NetworkLittleEndian_i32_42(s) ==
    LET r == varint_loop(s, AsBits(0, 32), 0, 42, {}) IN
    IF r.ok THEN ROk(unzigzag(r.val), r.rest, r.faults \cup unzigzag_faults(r.val)) ELSE r

NetworkLittleEndian_i32(s) ==
    LET r == varint_loop(s, AsBits(0, 32), 0, 35, {}) IN
    IF r.ok THEN ROk(unzigzag(r.val), r.rest, r.faults \cup unzigzag_faults(r.val)) ELSE r

\* NetworkLittleEndian::i64 with one more round of the loop: (0..77).
NetworkLittleEndian_i64_77(s) ==
    LET r == varint_loop(s, AsBits(0, 64), 0, 77, {}) IN
    IF r.ok THEN ROk(unzigzag(r.val), r.rest, r.faults \cup unzigzag_faults(r.val)) ELSE r

NetworkLittleEndian_i64(s) ==
    LET r == varint_loop(s, AsBits(0, 64), 0, 70, {}) IN
    IF r.ok THEN ROk(unzigzag(r.val), r.rest, r.faults \cup unzigzag_faults(r.val)) ELSE r

\* The encoding's own i16, i32 and i64.
i16(e, s) ==
    CASE e = "BigEndian" -> BigEndian_i16(s)
      [] e = "LittleEndian" -> LittleEndian_i16(s)
      [] e = "NetworkLittleEndian" -> NetworkLittleEndian_i16(s)

i32(e, s) ==
    CASE e = "BigEndian" -> BigEndian_i32(s)
      [] e = "LittleEndian" -> LittleEndian_i32(s)
      [] e = "NetworkLittleEndian" -> NetworkLittleEndian_i32(s)

i64(e, s) ==
    CASE e = "BigEndian" -> BigEndian_i64(s)
      [] e = "LittleEndian" -> LittleEndian_i64(s)
      [] e = "NetworkLittleEndian" -> NetworkLittleEndian_i64(s)

(***************************************************************************)
(* Reader's provided methods.                                              *)
(***************************************************************************)
HexDigits == <<"0", "1", "2", "3", "4", "5", "6", "7", "8", "9", "a", "b", "c", "d", "e", "f">>

\* format!("{t:#x}"): no padding.
fmt_x(t) ==
    IF t < 16 THEN "0x" \o HexDigits[t + 1]
    ELSE "0x" \o HexDigits[(t \div 16) + 1] \o HexDigits[(t % 16) + 1]

\* format!("{t:#04x}"): "0x", then t in lowercase hexadecimal, zero-padded to
\* a total width of 4.
fmt_04x(t) ==
    IF t < 16 THEN "0x0" \o HexDigits[t + 1]
    ELSE "0x" \o HexDigits[(t \div 16) + 1] \o HexDigits[(t % 16) + 1]

Reader_end(s) ==
    LET r == Reader_u8(s) IN
    IF ~r.ok THEN r
    ELSE IF r.val # 0
         THEN RErr(ErrorPath_new(<<"UnexpectedTag", "END (0x00)", fmt_04x(r.val)>>), r.rest, {})
         ELSE ROk(<<"unit">>, r.rest, {})

\* len as i32, from an i16
SignExtend(x, w) == [i \in 1..w |-> IF i <= Len(x) THEN x[i] ELSE x[Len(x)]]

\* for i in 0..len { buf.push(self.u8(reader).map_err(|err| err.prepend(Element(i)))?) }
\* Byte i is read while the source has a byte left; the first read past the
\* end fails, at index Len(s).
read_u8_elements(s, n) ==
    IF Len(s) >= n THEN ROk(SubSeq(s, 1, n), SubSeq(s, n + 1, Len(s)), {})
    ELSE RErr(prepend(IoEof, Element(Len(s))), <<>>, {})

\* for i in 0..len { buf.push(self.i32(reader).map_err(|err| err.prepend(Element(i)))?) }
\* and the same with i64 (w = 64).
RECURSIVE read_elements(_, _, _, _, _, _, _)
read_elements(e, s, n, i, acc, w, f) ==
    IF i >= n THEN ROk(acc, s, f)
    ELSE LET r == IF w = 32 THEN i32(e, s) ELSE i64(e, s) IN
         IF ~r.ok THEN RErr(prepend(r.err, Element(i)), r.rest, f \cup r.faults)
         ELSE read_elements(e, r.rest, n, i + 1, Append(acc, r.val), w, f \cup r.faults)

(***************************************************************************)
(* String::from_utf8: the bytes are well-formed UTF-8 (Unicode 15, table   *)
(* 3-7).  Every byte starts a well-formed sequence or continues the one    *)
(* started at most three bytes before it.                                  *)
(***************************************************************************)
Utf8Width(b) ==
    IF b < 128 THEN 1
    ELSE IF b \in 194..223 THEN 2
    ELSE IF b \in 224..239 THEN 3
    ELSE IF b \in 240..244 THEN 4
    ELSE 0

Utf8Second(b) ==
    CASE b = 224 -> 160..191
      [] b = 237 -> 128..159
      [] b = 240 -> 144..191
      [] b = 244 -> 128..143
      [] OTHER -> 128..191

Utf8Starts(bs, i) ==
    LET k == Utf8Width(bs[i]) IN
    /\ k >= 1
    /\ i + k - 1 <= Len(bs)
    /\ k >= 2 => bs[i + 1] \in Utf8Second(bs[i])
    /\ \A j \in 2..(k - 1) : bs[i + j] \in 128..191

Utf8Continues(bs, i) ==
    /\ bs[i] \in 128..191
    /\ \E j \in 1..3 :
          /\ i - j >= 1
          /\ Utf8Width(bs[i - j]) > j
          /\ \A m \in 1..(j - 1) : bs[i - m] \in 128..191

IsUtf8(bs) == \A i \in 1..Len(bs) : Utf8Starts(bs, i) \/ Utf8Continues(bs, i)

from_utf8(r) ==
    IF ~r.ok THEN r
    ELSE IF IsUtf8(r.val) THEN r
    ELSE RErr(ErrorPath_new(<<"InvalidUtf8">>), r.rest, r.faults)

Reader_string(e, s) ==
    LET r == i16(e, s) IN
    IF ~r.ok THEN r
    ELSE IF IsNeg(r.val)
         THEN RErr(ErrorPath_new(<<"SeqLengthViolation", I16_MAX, SignExtend(r.val, 32)>>),
                   r.rest, r.faults)
         ELSE from_utf8(read_u8_elements(r.rest, BitsNat(r.val)))

\* usize::MAX.min(i32::MAX as usize)
VEC_MAX == I32_MAX

\* Reader::u8_vec with `len as usize` in place of the checked conversion: a
\* negative length becomes a huge count.
Reader_u8_vec_unchecked(e, s) ==
    LET r == i32(e, s) IN
    IF ~r.ok THEN r
    ELSE LET n == IF IsNeg(r.val) THEN I32_MAX ELSE BitsNat(SubSeq(r.val, 1, 31))
             q == read_u8_elements(r.rest, n)
         IN  [q EXCEPT !.faults = @ \cup r.faults]

Reader_u8_vec(e, s) ==
    LET r == i32(e, s) IN
    IF ~r.ok THEN r
    ELSE IF IsNeg(r.val)
         THEN RErr(ErrorPath_new(<<"SeqLengthViolation", VEC_MAX, r.val>>), r.rest, r.faults)
         ELSE LET q == read_u8_elements(r.rest, BitsNat(SubSeq(r.val, 1, 31)))
              IN  [q EXCEPT !.faults = @ \cup r.faults]

Reader_i32_vec(e, s) ==
    LET r == i32(e, s) IN
    IF ~r.ok THEN r
    ELSE IF IsNeg(r.val)
         THEN RErr(ErrorPath_new(<<"SeqLengthViolation", VEC_MAX, r.val>>), r.rest, r.faults)
         ELSE read_elements(e, r.rest, BitsNat(SubSeq(r.val, 1, 31)), 0, <<>>, 32, r.faults)

Reader_i64_vec(e, s) ==
    LET r == i32(e, s) IN
    IF ~r.ok THEN r
    ELSE IF IsNeg(r.val)
         THEN RErr(ErrorPath_new(<<"SeqLengthViolation", VEC_MAX, r.val>>), r.rest, r.faults)
         ELSE read_elements(e, r.rest, BitsNat(SubSeq(r.val, 1, 31)), 0, <<>>, 64, r.faults)

\* NetworkLittleEndian::string: an unsigned varint length, then the bytes.
\* A length of 2^31 or more is more than any source of the model holds, and
\* stands as I32_MAX in the count of bytes to read.
NetworkLittleEndian_string(s) ==
    LET r == varint_loop(s, AsBits(0, 32), 0, 35, {}) IN
    IF ~r.ok THEN r
    ELSE LET n == IF r.val[32] = 1 THEN I32_MAX ELSE BitsNat(SubSeq(r.val, 1, 31))
             q == from_utf8(read_u8_elements(r.rest, n))
         IN  [q EXCEPT !.faults = @ \cup r.faults]

string(e, s) ==
    IF e = "NetworkLittleEndian" THEN NetworkLittleEndian_string(s) ELSE Reader_string(e, s)

(***************************************************************************)
(* impl Writer for BigEndian, LittleEndian, NetworkLittleEndian.  k is the *)
(* sink before the call.                                                   *)
(***************************************************************************)
\* Writer::write_u8; NetworkLittleEndian's override is the same code.
Writer_write_u8(k, x) == write_all(k, <<x>>)

NetworkLittleEndian_write_u8(k, x) == write_all(k, <<x>>)

BigEndian_write_i16(k, x) == write_all(k, to_be_bytes(x))

BigEndian_write_i32(k, x) == write_all(k, to_be_bytes(x))

BigEndian_write_i64(k, x) == write_all(k, to_be_bytes(x))

LittleEndian_write_i16(k, x) == write_all(k, to_le_bytes(x))

\* LittleEndian::write_i32 encoding with to_be_bytes.
LittleEndian_write_i32_be(k, x) == write_all(k, to_be_bytes(x))

LittleEndian_write_i32(k, x) == write_all(k, to_le_bytes(x))

LittleEndian_write_i64(k, x) == write_all(k, to_le_bytes(x))

NetworkLittleEndian_write_i16(k, x) == write_all(k, to_le_bytes(x))

\* b | 0x80 on a byte
Or0x80(b) == IF b < 128 THEN b + 128 ELSE b

\* while u >= 0x80 { self.write_u8(buf, u as u8 | 0x80)?; u >>= 7; }
\* self.write_u8(buf, u as u8)?;
RECURSIVE write_varint(_, _)
write_varint(k, u) ==
    IF Ge0x80(u)
    THEN LET r == NetworkLittleEndian_write_u8(k, Or0x80(AsU8(u))) IN
         IF ~r.ok THEN r ELSE write_varint(r.out, Shr(u, 7))
    ELSE NetworkLittleEndian_write_u8(k, AsU8(u))

\* The zig-zag step without the complement of negative values.
zigzag_no_complement(x) == Shl(x, 1)

\* let mut u = (x as uN) << 1; if x < 0 { u = !u; }
zigzag(x) == IF IsNeg(x) THEN Not(Shl(x, 1)) ELSE Shl(x, 1)

NetworkLittleEndian_write_i32(k, x) == write_varint(k, zigzag(x))

NetworkLittleEndian_write_i64(k, x) == write_varint(k, zigzag(x))

write_u8(e, k, x) ==
    IF e = "NetworkLittleEndian" THEN NetworkLittleEndian_write_u8(k, x) ELSE Writer_write_u8(k, x)

write_i16(e, k, x) ==
    CASE e = "BigEndian" -> BigEndian_write_i16(k, x)
      [] e = "LittleEndian" -> LittleEndian_write_i16(k, x)
      [] e = "NetworkLittleEndian" -> NetworkLittleEndian_write_i16(k, x)

write_i32(e, k, x) ==
    CASE e = "BigEndian" -> BigEndian_write_i32(k, x)
      [] e = "LittleEndian" -> LittleEndian_write_i32(k, x)
      [] e = "NetworkLittleEndian" -> NetworkLittleEndian_write_i32(k, x)

write_i64(e, k, x) ==
    CASE e = "BigEndian" -> BigEndian_write_i64(k, x)
      [] e = "LittleEndian" -> LittleEndian_write_i64(k, x)
      [] e = "NetworkLittleEndian" -> NetworkLittleEndian_write_i64(k, x)

(***************************************************************************)
(* Writer's provided methods.                                              *)
(***************************************************************************)
Writer_write_end(e, k) == write_u8(e, k, 0)

\* for (i, b) in x.iter().enumerate() { self.write_u8(writer, *b).map_err(prepend Element(i))?; }
\* Byte i is accepted while the sink has room; the first byte that does not
\* fit fails, at index k.room.  tagged: whether the loop has the map_err.
write_u8_elements(k, x, tagged) ==
    IF k.room < 0 \/ Len(x) <= k.room
    THEN WOk([buf |-> k.buf \o x,
              room |-> IF k.room < 0 THEN k.room ELSE k.room - Len(x)], {})
    ELSE WErr(IF tagged THEN prepend(IoFull, Element(k.room)) ELSE IoFull,
              [buf |-> k.buf \o SubSeq(x, 1, k.room), room |-> 0], {})

\* for (i, v) in x.iter().enumerate() { self.write_i32(writer, *v).map_err(prepend Element(i))?; }
\* and the same with write_i64 (w = 64).
RECURSIVE write_elements(_, _, _, _, _)
write_elements(e, k, x, i, w) ==
    IF i >= Len(x) THEN WOk(k, {})
    ELSE LET r == IF w = 32 THEN write_i32(e, k, x[i + 1]) ELSE write_i64(e, k, x[i + 1]) IN
         IF ~r.ok THEN WErr(prepend(r.err, Element(i)), r.out, r.faults)
         ELSE write_elements(e, r.out, x, i + 1, w)

\* x.len() as i16 and x.len() as i32 wrap when the length is above the maximum
\* of the type.
cast_faults(n, max) == IF n > max THEN {"cast"} ELSE {}

\* Writer::write_string with the length check off by one: >= for >.
Writer_write_string_ge(e, k, x) ==
    IF Len(x) >= I16_MAX
    THEN WErr(ErrorPath_new(<<"SeqLengthViolation", I16_MAX, Len(x)>>), k, {})
    ELSE LET f == cast_faults(Len(x), I16_MAX)
             r == write_i16(e, k, AsBits(Len(x), 16))
         IN  IF ~r.ok THEN [r EXCEPT !.faults = @ \cup f]
             ELSE [write_u8_elements(r.out, x, TRUE) EXCEPT !.faults = @ \cup f]

Writer_write_string(e, k, x) ==
    IF Len(x) > I16_MAX
    THEN WErr(ErrorPath_new(<<"SeqLengthViolation", I16_MAX, Len(x)>>), k, {})
    ELSE LET f == cast_faults(Len(x), I16_MAX)
             r == write_i16(e, k, AsBits(Len(x), 16))
         IN  IF ~r.ok THEN [r EXCEPT !.faults = @ \cup f]
             ELSE [write_u8_elements(r.out, x, TRUE) EXCEPT !.faults = @ \cup f]

Writer_write_u8_vec(e, k, x) ==
    IF Len(x) > I32_MAX
    THEN WErr(ErrorPath_new(<<"SeqLengthViolation", I32_MAX, Len(x)>>), k, {})
    ELSE LET f == cast_faults(Len(x), I32_MAX)
             r == write_i32(e, k, AsBits(Len(x), 32))
         IN  IF ~r.ok THEN [r EXCEPT !.faults = @ \cup f]
             ELSE [write_u8_elements(r.out, x, TRUE) EXCEPT !.faults = @ \cup f]

Writer_write_i32_vec(e, k, x) ==
    IF Len(x) > I32_MAX
    THEN WErr(ErrorPath_new(<<"SeqLengthViolation", I32_MAX, Len(x)>>), k, {})
    ELSE LET f == cast_faults(Len(x), I32_MAX)
             r == write_i32(e, k, AsBits(Len(x), 32))
         IN  IF ~r.ok THEN [r EXCEPT !.faults = @ \cup f]
             ELSE [write_elements(e, r.out, x, 0, 32) EXCEPT !.faults = @ \cup f]

Writer_write_i64_vec(e, k, x) ==
    IF Len(x) > I32_MAX
    THEN WErr(ErrorPath_new(<<"SeqLengthViolation", I32_MAX, Len(x)>>), k, {})
    ELSE LET f == cast_faults(Len(x), I32_MAX)
             r == write_i32(e, k, AsBits(Len(x), 32))
         IN  IF ~r.ok THEN [r EXCEPT !.faults = @ \cup f]
             ELSE [write_elements(e, r.out, x, 0, 64) EXCEPT !.faults = @ \cup f]

\* NetworkLittleEndian::write_string with the length written by write_i32, as
\* a zig-zag varint.
NetworkLittleEndian_write_string_zigzag(k, x) ==
    IF Len(x) > I16_MAX
    THEN WErr(ErrorPath_new(<<"SeqLengthViolation", I16_MAX, Len(x)>>), k, {})
    ELSE LET r == NetworkLittleEndian_write_i32(k, AsBits(Len(x), 32)) IN
         IF ~r.ok THEN r ELSE write_u8_elements(r.out, x, FALSE)

\* NetworkLittleEndian::write_string: the length as an unsigned varint, then
\* the bytes, written with a bare `?`.
NetworkLittleEndian_write_string(k, x) ==
    IF Len(x) > I16_MAX
    THEN WErr(ErrorPath_new(<<"SeqLengthViolation", I16_MAX, Len(x)>>), k, {})
    ELSE LET r == write_varint(k, AsBits(Len(x), 32)) IN
         IF ~r.ok THEN r ELSE write_u8_elements(r.out, x, FALSE)

write_string(e, k, x) ==
    IF e = "NetworkLittleEndian" THEN NetworkLittleEndian_write_string(k, x)
    ELSE Writer_write_string(e, k, x)

(***************************************************************************)
(* The values written and the sources read.  A "single" session writes one *)
(* value drawn from a wide set, to a sink that may be bounded, and reads   *)
(* it back; a "stream" session writes up to MaxOps values drawn from a     *)
(* narrow set to an unbounded sink and reads them back in order, as        *)
(* tests::test does; a "parse" session reads from a crafted source.        *)
(***************************************************************************)
Rep(b, n) == [i \in 1..n |-> b]

SeqsUpTo(S, n) == UNION {[1..m -> S] : m \in 0..n}

RECURSIVE Flatten(_)
Flatten(ss) == IF ss = <<>> THEN <<>> ELSE ss[1] \o Flatten(Tail(ss))

\* 2^k and 2^k - 1 in w bits
Pow2(k, w) == [i \in 1..w |-> IF i = k + 1 THEN 1 ELSE 0]
Ones(k, w) == [i \in 1..w |-> IF i <= k THEN 1 ELSE 0]

\* 2^k, 2^k - 1, -2^k - 1 and -2^k for every k: each boundary of the type and
\* of the varint's groups.
Boundaries(w) ==
    UNION {{Pow2(k, w), Ones(k, w), Not(Pow2(k, w)), Not(Ones(k, w))} : k \in 0..(w - 1)}

\* 'a', U+00E9, U+20AC, U+1F600 in UTF-8
Chars == <<<<97>>, <<195, 169>>, <<226, 130, 172>>, <<240, 159, 152, 128>>>>

CharAt(i) == Chars[((i - 1) % 4) + 1]

U8Values == IF kind = "single" THEN {0, 1, 127, 128, 255} ELSE {100, 255}

I16Values ==
    IF kind = "single"
    THEN UNION {{AsBits(n, 16), Not(AsBits(n, 16))} : n \in {0, 1, 127, 128, 255, 256, 258, I16_MAX}}
    ELSE {AsBits(1, 16), Not(AsBits(1, 16))}

I32Values ==
    IF kind = "single"
    THEN Boundaries(32) \cup {from_be_bytes(<<1, 2, 3, 4>>)}
    ELSE {from_be_bytes(<<1, 2, 3, 4>>), Not(AsBits(1, 32))}

I64Values ==
    IF kind = "single"
    THEN Boundaries(64) \cup {from_be_bytes(<<1, 2, 3, 4, 5, 6, 7, 8>>)}
    ELSE {AsBits(10, 64), Not(AsBits(0, 64))}

StringValues ==
    IF kind = "single"
    THEN {Flatten(cs) : cs \in SeqsUpTo({Chars[i] : i \in 1..4}, MaxLen)}
         \cup {Rep(97, n) : n \in {127, 128, I16_MAX, I16_MAX + 1}}
    ELSE {Flatten([i \in 1..n |-> CharAt(i)]) : n \in 0..MaxLen}

U8VecValues ==
    IF kind = "single" THEN SeqsUpTo({0, 255}, MaxLen)
    ELSE {[i \in 1..n |-> i] : n \in 0..MaxLen}

I32VecValues ==
    IF kind = "single" THEN SeqsUpTo({AsBits(1, 32), Not(AsBits(1, 32)), Ones(31, 32)}, MaxLen)
    ELSE {[i \in 1..n |-> IF i % 2 = 1 THEN AsBits(i, 32) ELSE Not(AsBits(i, 32))] : n \in 0..MaxLen}

I64VecValues ==
    IF kind = "single" THEN SeqsUpTo({AsBits(1, 64), Not(AsBits(1, 64)), Ones(63, 64)}, MaxLen)
    ELSE {[i \in 1..n |-> IF i % 2 = 1 THEN AsBits(i, 64) ELSE Not(AsBits(i, 64))] : n \in 0..MaxLen}

\* Crafted sources: every single byte; up to MaxLead zero bytes, then at most
\* one small byte, then a run of up to MaxRun equal bytes; and a run of up to
\* MaxRun bytes with the high bit set, then one byte without it.
RawInputs ==
    {<<b>> : b \in 0..255}
    \cup {Rep(0, j) \o m \o Rep(b, n) :
            j \in 0..MaxLead, m \in {<<>>, <<2>>, <<3>>, <<4>>},
            b \in {0, 97, 128, 255}, n \in 0..MaxRun}
    \cup {Rep(b, n) \o <<m>> : b \in {128, 255}, n \in 0..MaxRun, m \in {0, 1, 15, 127}}

Unbounded == [buf |-> <<>>, room |-> -1]

\* A value kept in the state goes with the name of its type, <<type, value>>:
\* values of different types differ in their first component.
Tagged(type, v) == <<type, v>>

Nothing == Tagged("none", <<>>)

NoRes == [op |-> "none", arg |-> Nothing, ok |-> TRUE, val |-> Nothing, err |-> NoErr,
          faults |-> {}, n |-> 0]

Init ==
    /\ enc \in Encodings
    /\ kind \in {"stream", "single", "parse"}
    /\ phase = IF kind = "parse" THEN "read" ELSE "write"
    /\ sink \in IF kind = "single"
                THEN {Unbounded} \cup {[buf |-> <<>>, room |-> c] : c \in 0..MaxRoom}
                ELSE {Unbounded}
    /\ src \in IF kind = "parse" THEN RawInputs ELSE {<<>>}
    /\ wlog = <<>>
    /\ nread = 0
    /\ res = NoRes

(***************************************************************************)
(* One call of a Writer method on the sink.  arg is the value written, val *)
(* the bytes the call added to the sink, n their number.                   *)
(***************************************************************************)
CanWrite ==
    /\ phase = "write"
    /\ \/ kind = "stream" /\ Len(wlog) < MaxOps
       \/ kind = "single" /\ res.op = "none"

Written(op, type, x, r) ==
    LET n == Len(r.out.buf) - Len(sink.buf) IN
    /\ sink' = r.out
    /\ res' = [op |-> op, arg |-> Tagged(type, x), ok |-> r.ok,
               val |-> Tagged("bytes", SubSeq(r.out.buf, Len(sink.buf) + 1, Len(r.out.buf))),
               err |-> r.err, faults |-> r.faults, n |-> n]
    /\ wlog' = IF r.ok THEN Append(wlog, [type |-> type, val |-> Tagged(type, x), n |-> n])
               ELSE wlog
    /\ UNCHANGED <<enc, kind, phase, src, nread>>

WriteU8 == CanWrite /\ \E x \in U8Values : Written("write_u8", "u8", x, write_u8(enc, sink, x))

WriteI16 == CanWrite /\ \E x \in I16Values : Written("write_i16", "i16", x, write_i16(enc, sink, x))

WriteI32 == CanWrite /\ \E x \in I32Values : Written("write_i32", "i32", x, write_i32(enc, sink, x))

WriteI64 == CanWrite /\ \E x \in I64Values : Written("write_i64", "i64", x, write_i64(enc, sink, x))

WriteEnd == CanWrite /\ Written("write_end", "end", <<"unit">>, Writer_write_end(enc, sink))

WriteString ==
    CanWrite /\ \E x \in StringValues :
        Written("write_string", "string", x, write_string(enc, sink, x))

WriteU8Vec ==
    CanWrite /\ \E x \in U8VecValues :
        Written("write_u8_vec", "u8_vec", x, Writer_write_u8_vec(enc, sink, x))

WriteI32Vec ==
    CanWrite /\ \E x \in I32VecValues :
        Written("write_i32_vec", "i32_vec", x, Writer_write_i32_vec(enc, sink, x))

WriteI64Vec ==
    CanWrite /\ \E x \in I64VecValues :
        Written("write_i64_vec", "i64_vec", x, Writer_write_i64_vec(enc, sink, x))

\* let buf: Vec<u8> = buf_writer.into(); ... read(&mut buf.as_slice(), ..)
StartRead ==
    /\ phase = "write"
    /\ phase' = "read"
    /\ src' = sink.buf
    /\ UNCHANGED <<enc, kind, sink, wlog, nread, res>>

(***************************************************************************)
(* One call of a Reader method on the source.  When the bytes written are  *)
(* read back, the types are read in the order they were written; a crafted *)
(* source is read as any type.  arg is the source before the call, n the   *)
(* number of bytes the call consumed.                                      *)
(***************************************************************************)
CanRead(type) ==
    /\ phase = "read"
    /\ \/ kind = "parse" /\ nread < MaxReads
       \/ kind # "parse" /\ nread < Len(wlog) /\ wlog[nread + 1].type = type

Read(op, r) ==
    /\ src' = r.rest
    /\ nread' = nread + 1
    /\ res' = [op |-> op, arg |-> Tagged("bytes", src), ok |-> r.ok,
               val |-> IF r.ok THEN Tagged(op, r.val) ELSE Nothing, err |-> r.err,
               faults |-> r.faults, n |-> Len(src) - Len(r.rest)]
    /\ UNCHANGED <<enc, kind, phase, sink, wlog>>

ReadU8 == CanRead("u8") /\ Read("u8", Reader_u8(src))

ReadI16 == CanRead("i16") /\ Read("i16", i16(enc, src))

ReadI32 == CanRead("i32") /\ Read("i32", i32(enc, src))

ReadI64 == CanRead("i64") /\ Read("i64", i64(enc, src))

ReadEnd == CanRead("end") /\ Read("end", Reader_end(src))

ReadString == CanRead("string") /\ Read("string", string(enc, src))

ReadU8Vec == CanRead("u8_vec") /\ Read("u8_vec", Reader_u8_vec(enc, src))

ReadI32Vec == CanRead("i32_vec") /\ Read("i32_vec", Reader_i32_vec(enc, src))

ReadI64Vec == CanRead("i64_vec") /\ Read("i64_vec", Reader_i64_vec(enc, src))

Next ==
    \/ WriteU8 \/ WriteI16 \/ WriteI32 \/ WriteI64 \/ WriteEnd
    \/ WriteString \/ WriteU8Vec \/ WriteI32Vec \/ WriteI64Vec
    \/ StartRead
    \/ ReadU8 \/ ReadI16 \/ ReadI32 \/ ReadI64 \/ ReadEnd
    \/ ReadString \/ ReadU8Vec \/ ReadI32Vec \/ ReadI64Vec

Spec == Init /\ [][Next]_vars

(***************************************************************************)
(* Properties.                                                             *)
(***************************************************************************)
\* The argument and the value of the last operation.
Arg == res.arg[2]
Val == res.val[2]

ReadBack == kind # "parse" /\ phase = "read" /\ sink.room < 0 /\ nread >= 1

\* C1: under BigEndian and LittleEndian, values written in order to one
\* unbounded sink and read back in the same order with the same types come
\* back equal, each read consumes exactly the bytes its write emitted, and
\* the source is empty after the last read.
C1_RoundTrip ==
    (enc \in {"BigEndian", "LittleEndian"} /\ kind # "parse" /\ phase = "read" /\ sink.room < 0) =>
        /\ nread >= 1 =>
             /\ res.ok
             /\ res.op = wlog[nread].type
             /\ res.val = wlog[nread].val
             /\ res.n = wlog[nread].n
        /\ nread = Len(wlog) => src = <<>>

C1_Witness ==
    /\ enc = "LittleEndian" /\ kind = "stream" /\ phase = "read"
    /\ Len(wlog) = 2 /\ nread = 2
    /\ wlog[1].type = "string" /\ Len(wlog[1].val[2]) = 3
    /\ wlog[2].type = "i64_vec" /\ Len(wlog[2].val[2]) = 2
    /\ res.ok /\ src = <<>>

MinOf(w) == Pow2(w - 1, w)

\* C2: under NetworkLittleEndian every i32 and i64 except the minimum of the
\* type reads back from the bytes written for it as itself, the read
\* consuming exactly those bytes.
C2_VarintRoundTrip ==
    (enc = "NetworkLittleEndian" /\ ReadBack /\ res.op \in {"i32", "i64"}
        /\ wlog[nread].val[2] # MinOf(Len(wlog[nread].val[2]))) =>
        /\ res.ok
        /\ res.val = wlog[nread].val
        /\ res.n = wlog[nread].n

\* x >> k on a signed x: the sign bit is shifted in.
Sar(x, k) == [i \in 1..Len(x) |-> IF i + k <= Len(x) THEN x[i + k] ELSE x[Len(x)]]

BitXor(a, b) == [i \in 1..Len(a) |-> IF a[i] = b[i] THEN 0 ELSE 1]

\* (x << 1) XOR (x >> (w - 1))
ZigZagValue(x) == BitXor(Shl(x, 1), Sar(x, Len(x) - 1))

\* Bit p (from 0) of the payload of a varint: 7 bits a byte, low group first.
PayloadBit(bytes, p) ==
    IF (p \div 7) + 1 <= Len(bytes) THEN (bytes[(p \div 7) + 1] \div (2 ^ (p % 7))) % 2 ELSE 0

\* bytes is the unsigned little-endian base-128 varint of u: as few groups as
\* hold u, every byte but the last with the high bit set.
IsVarintOf(bytes, u) ==
    /\ Len(bytes) >= 1
    /\ 7 * (Len(bytes) - 1) < Len(u)
    /\ \A i \in 1..(Len(bytes) - 1) : bytes[i] >= 128
    /\ bytes[Len(bytes)] < 128
    /\ Len(bytes) > 1 => bytes[Len(bytes)] # 0
    /\ \A p \in 0..(7 * Len(bytes) - 1) :
          PayloadBit(bytes, p) = IF p < Len(u) THEN u[p + 1] ELSE 0
    /\ \A p \in (7 * Len(bytes))..(Len(u) - 1) : u[p + 1] = 0

\* The spec's table of i32 varints.
VarintTable ==
    {<<AsBits(0, 32), <<0>>>>, <<Not(AsBits(0, 32)), <<1>>>>, <<AsBits(1, 32), <<2>>>>,
     <<Not(AsBits(1, 32)), <<3>>>>, <<AsBits(63, 32), <<126>>>>, <<AsBits(64, 32), <<128, 1>>>>,
     <<Ones(31, 32), <<254, 255, 255, 255, 15>>>>}

\* C3: NetworkLittleEndian write_i32 and write_i64 of x emit exactly the
\* varint of the zig-zag value of x, in 1 to 5 and 1 to 10 bytes, and the
\* bytes of the table for the values of the table.
C3_VarintBytes ==
    (enc = "NetworkLittleEndian" /\ res.op \in {"write_i32", "write_i64"} /\ res.ok) =>
        /\ IsVarintOf(Val, ZigZagValue(Arg))
        /\ Len(Val) <= (IF res.op = "write_i32" THEN 5 ELSE 10)
        /\ \A row \in VarintTable :
              (res.op = "write_i32" /\ Arg = row[1]) => Val = row[2]

C3_Witness ==
    /\ enc = "NetworkLittleEndian" /\ res.op = "write_i32" /\ res.ok
    /\ Arg = Ones(31, 32)
    /\ Val = <<254, 255, 255, 255, 15>>

\* The first n bytes of s all have the high bit set.
HighRun(s, n) == Len(s) >= n /\ \A i \in 1..n : s[i] >= 128

\* The last read failed with "varint overflows integer" and an empty path,
\* having consumed exactly n bytes.
Overflowed(n) ==
    /\ ~res.ok
    /\ res.val = Nothing
    /\ res.err = [reason |-> <<"Custom", "varint overflows integer">>, path |-> <<>>]
    /\ res.n = n
    /\ src = SubSeq(Arg, n + 1, Len(Arg))

\* C4: NetworkLittleEndian i32 and string on a source starting with 5 bytes
\* with the high bit set, and i64 on one starting with 10, fail with
\* Custom("varint overflows integer") and an empty path after exactly 5 and
\* 10 bytes.
C4_VarintOverflow ==
    enc = "NetworkLittleEndian" =>
        /\ (res.op \in {"i32", "string"} /\ HighRun(Arg, 5)) => Overflowed(5)
        /\ (res.op = "i64" /\ HighRun(Arg, 10)) => Overflowed(10)

C4_Witness ==
    /\ enc = "NetworkLittleEndian" /\ res.op = "i64"
    /\ HighRun(Arg, 10) /\ Len(Arg) = 11
    /\ ~res.ok /\ res.n = 10 /\ Len(src) = 1

\* C5: in every encoding write_string of more than 32767 bytes fails with
\* SeqLengthViolation(32767, length) and writes nothing; write_string of at
\* most 32767 bytes succeeds on an unbounded sink.
C5_StringCap ==
    res.op = "write_string" =>
        IF Len(Arg) > 32767
        THEN /\ ~res.ok
             /\ res.err.reason = <<"SeqLengthViolation", 32767, Len(Arg)>>
             /\ res.n = 0
             /\ Val = <<>>
             /\ wlog = <<>> => sink.buf = <<>>
        ELSE sink.room < 0 => res.ok /\ Len(Val) >= Len(Arg)

C5_Witness ==
    /\ res.op = "write_string" /\ Len(Arg) = 32768
    /\ ~res.ok /\ res.err.reason = <<"SeqLengthViolation", 32767, 32768>>
    /\ sink.buf = <<>>

\* C6: a negative i16 length L read by the default string gives
\* SeqLengthViolation(32767, L), a negative i32 length L read by u8_vec,
\* i32_vec or i64_vec (with the encoding's own i32) gives
\* SeqLengthViolation(2^31-1, L), and the source stands right after the
\* bytes of the length.
C6_NegativeLength ==
    /\ (enc \in {"BigEndian", "LittleEndian"} /\ res.op = "string") =>
          LET p == i16(enc, Arg) IN
          (p.ok /\ IsNeg(p.val)) =>
              /\ ~res.ok
              /\ res.err.reason = <<"SeqLengthViolation", 32767, SignExtend(p.val, 32)>>
              /\ res.n = 2
              /\ src = SubSeq(Arg, 3, Len(Arg))
    /\ res.op \in {"u8_vec", "i32_vec", "i64_vec"} =>
          LET p == i32(enc, Arg) IN
          (p.ok /\ IsNeg(p.val)) =>
              /\ ~res.ok
              /\ res.err.reason = <<"SeqLengthViolation", 2147483647, p.val>>
              /\ res.n = Len(Arg) - Len(p.rest)
              /\ src = p.rest
              /\ enc # "NetworkLittleEndian" => res.n = 4
              /\ enc = "NetworkLittleEndian" =>
                    /\ Arg[res.n] < 128
                    /\ \A i \in 1..(res.n - 1) : Arg[i] >= 128

C6_Witness ==
    /\ enc = "NetworkLittleEndian" /\ res.op = "i32_vec"
    /\ Len(Arg) = 4 /\ Arg[1] = 3
    /\ res.err.reason[1] = "SeqLengthViolation" /\ res.n = 1 /\ Len(src) = 3

\* The sink before the last write.
SinkBefore ==
    [buf |-> SubSeq(sink.buf, 1, Len(sink.buf) - res.n),
     room |-> IF sink.room < 0 THEN sink.room ELSE sink.room + res.n]

\* The index and the error of the first of the elements i .. n-1, of w bits
\* each, whose read from s fails; n when none does.  A byte fails to read
\* when the source has none left.
RECURSIVE FirstFailedRead(_, _, _, _, _)
FirstFailedRead(e, s, w, n, i) ==
    IF w = 8 THEN IF Len(s) >= n - i THEN [index |-> n, err |-> NoErr]
                  ELSE [index |-> i + Len(s), err |-> Reader_u8(<<>>).err]
    ELSE IF i >= n THEN [index |-> n, err |-> NoErr]
    ELSE LET r == IF w = 32 THEN i32(e, s) ELSE i64(e, s) IN
         IF ~r.ok THEN [index |-> i, err |-> r.err]
         ELSE FirstFailedRead(e, r.rest, w, n, i + 1)

\* The index and the error of the first of the elements i .. of x, of w bits
\* each, whose write to k fails; Len(x) when none does.  A byte fails to
\* write when the sink has no room left.
RECURSIVE FirstFailedWrite(_, _, _, _, _)
FirstFailedWrite(e, k, x, w, i) ==
    IF w = 8 THEN IF k.room < 0 \/ k.room >= Len(x) - i THEN [index |-> Len(x), err |-> NoErr]
                  ELSE [index |-> i + k.room,
                        err |-> write_u8(e, [buf |-> <<>>, room |-> 0], x[i + k.room + 1]).err]
    ELSE IF i >= Len(x) THEN [index |-> Len(x), err |-> NoErr]
    ELSE LET r == IF w = 32 THEN write_i32(e, k, x[i + 1]) ELSE write_i64(e, k, x[i + 1]) IN
         IF ~r.ok THEN [index |-> i, err |-> r.err]
         ELSE FirstFailedWrite(e, r.out, x, w, i + 1)

ElementBits(op) ==
    CASE op \in {"i32_vec", "write_i32_vec"} -> 32
      [] op \in {"i64_vec", "write_i64_vec"} -> 64
      [] OTHER -> 8

\* The read of the length of a string or of an array from s: the count of
\* elements in val when it is not negative.
LengthRead(e, op, s) ==
    IF op = "string" /\ e = "NetworkLittleEndian" THEN varint_loop(s, AsBits(0, 32), 0, 35, {})
    ELSE IF op = "string" THEN i16(e, s)
    ELSE i32(e, s)

\* The write of the length of the string or of the array x to k.
LengthWritten(e, op, k, x) ==
    IF op = "write_string" /\ e = "NetworkLittleEndian" THEN write_varint(k, AsBits(Len(x), 32))
    ELSE IF op = "write_string" THEN write_i16(e, k, AsBits(Len(x), 16))
    ELSE write_i32(e, k, AsBits(Len(x), 32))

\* The count of elements a length stands for; 2^31 and more, which only the
\* unsigned length of a NetworkLittleEndian string reaches, is more than any
\* source holds and counts as 2^31 - 1.
ElementCount(v) == IF v[Len(v)] = 1 THEN 2147483647 ELSE BitsNat(v)

\* The last operation failed with the reason of inner and a path that begins
\* with the element inner failed at.
FailedAtElement(inner) ==
    /\ ~res.ok
    /\ res.err.reason = inner.err.reason
    /\ Len(res.err.path) >= 1
    /\ res.err.path[1] = <<"Element", inner.index>>

\* C7: in every encoding a string or an array whose length was read, resp.
\* written, and whose element n is the first to fail, fails with the reason of
\* that element's failure and a path that begins with Element(n); on read and
\* on write, NetworkLittleEndian's own string and write_string included.
C7_ElementPath ==
    /\ res.op \in {"string", "u8_vec", "i32_vec", "i64_vec"} =>
          LET p == LengthRead(enc, res.op, Arg) IN
          (p.ok /\ ((res.op = "string" /\ enc = "NetworkLittleEndian") \/ ~IsNeg(p.val))) =>
              LET inner == FirstFailedRead(enc, p.rest, ElementBits(res.op), ElementCount(p.val), 0) IN
              inner.index < ElementCount(p.val) => FailedAtElement(inner)
    /\ (res.op \in {"write_string", "write_u8_vec", "write_i32_vec", "write_i64_vec"}
          /\ Len(Arg) <= (IF res.op = "write_string" THEN 32767 ELSE 2147483647)) =>
          LET p == LengthWritten(enc, res.op, SinkBefore, Arg) IN
          p.ok =>
              LET inner == FirstFailedWrite(enc, p.out, Arg, ElementBits(res.op), 0) IN
              inner.index < Len(Arg) => FailedAtElement(inner)

\* C8: end() consumes one byte b, succeeds when b = 0 and otherwise fails
\* with UnexpectedTag("END (0x00)", "0x" and b in two lowercase hexadecimal
\* digits) and an empty path; write_end() emits the single byte 0, and end()
\* on what write_end() wrote succeeds.
C8_EndTag ==
    /\ (res.op = "end" /\ Len(Arg) >= 1) =>
          /\ res.n = 1
          /\ src = Tail(Arg)
          /\ Arg[1] = 0 => res.ok
          /\ Arg[1] # 0 =>
                /\ ~res.ok
                /\ res.err.path = <<>>
                /\ Len(res.err.reason) = 3
                /\ res.err.reason[1] = "UnexpectedTag"
                /\ res.err.reason[2] = "END (0x00)"
                /\ Len(res.err.reason[3]) = 4
                /\ \E h, l \in 0..15 :
                      /\ Arg[1] = 16 * h + l
                      /\ res.err.reason[3] = "0x" \o HexDigits[h + 1] \o HexDigits[l + 1]
    /\ (res.op = "write_end" /\ res.ok) => Val = <<0>>
    /\ (res.op = "end" /\ kind # "parse" /\ sink.room < 0) => res.ok

C8_Witness ==
    /\ res.op = "end" /\ Arg = <<10>>
    /\ ~res.ok /\ res.err.reason = <<"UnexpectedTag", "END (0x00)", "0x0a">>

\* The bytes of a two's-complement integer, most significant byte first.
MsbFirst(x) ==
    [j \in 1..(Len(x) \div 8) |-> BitsNat(SubSeq(x, Len(x) - 8 * j + 1, Len(x) - 8 * j + 8))]

ByteOrder(e, x) == IF e = "BigEndian" THEN MsbFirst(x) ELSE Reverse(MsbFirst(x))

\* C9: BigEndian writes an i16, i32 or i64 most significant byte first and
\* LittleEndian writes the same bytes reversed; so are the i16 length of a
\* string and the i32 length of an array.
C9_EndianMirror ==
    (enc \in {"BigEndian", "LittleEndian"} /\ res.ok) =>
        /\ res.op \in {"write_i16", "write_i32", "write_i64"} =>
              /\ Val = ByteOrder(enc, Arg)
              /\ Arg = from_be_bytes(<<1, 2, 3, 4>>) =>
                    Val = IF enc = "BigEndian" THEN <<1, 2, 3, 4>> ELSE <<4, 3, 2, 1>>
        /\ res.op = "write_string" =>
              SubSeq(Val, 1, 2) = ByteOrder(enc, AsBits(Len(Arg), 16))
        /\ res.op \in {"write_u8_vec", "write_i32_vec", "write_i64_vec"} =>
              SubSeq(Val, 1, 4) = ByteOrder(enc, AsBits(Len(Arg), 32))

C9_Witness ==
    /\ enc = "LittleEndian" /\ res.op = "write_i32" /\ res.ok
    /\ Arg = from_be_bytes(<<1, 2, 3, 4>>)
    /\ Val = <<4, 3, 2, 1>>

\* C10: no operation shifts by the width of its accumulator or more, negates
\* the minimum of a signed type, or wraps a length in a cast; a failed
\* operation returns an error value.
C10_NoPanic ==
    /\ res.faults = {}
    /\ ~res.ok => res.err.reason # <<"none">>

C10_Witness ==
    /\ enc = "NetworkLittleEndian" /\ kind = "parse" /\ res.op = "i64"
    /\ res.ok /\ res.n = 10
    /\ Arg[10] = 127

\* The bytes of a written string before its last n bytes, and its last n bytes.
LengthPrefix(bytes, n) == SubSeq(bytes, 1, Len(bytes) - n)
Payload(bytes, n) == SubSeq(bytes, Len(bytes) - n + 1, Len(bytes))

\* C11: NetworkLittleEndian write_string of a string of n <= 32767 bytes
\* emits the unsigned base-128 varint of n (7F for 127, 80 01 for 128), not
\* zig-zagged, then the n bytes unchanged; string read on those bytes returns
\* the string written and consumes exactly those bytes.
C11_NetString ==
    enc = "NetworkLittleEndian" =>
        /\ (res.op = "write_string" /\ Len(Arg) <= 32767 /\ sink.room < 0) =>
              /\ res.ok
              /\ Len(Val) > Len(Arg)
              /\ IsVarintOf(LengthPrefix(Val, Len(Arg)), AsBits(Len(Arg), 32))
              /\ Payload(Val, Len(Arg)) = Arg
              /\ Len(Arg) = 127 => LengthPrefix(Val, 127) = <<127>>
              /\ Len(Arg) = 128 => LengthPrefix(Val, 128) = <<128, 1>>
        /\ (ReadBack /\ res.op = "string") =>
              /\ res.ok
              /\ res.val = wlog[nread].val
              /\ res.n = wlog[nread].n
              /\ nread = Len(wlog) => src = <<>>

C11_Witness ==
    /\ enc = "NetworkLittleEndian" /\ ReadBack /\ res.op = "string"
    /\ res.ok /\ Len(Val) = 128 /\ res.n = 130
    /\ wlog[nread].n = 130 /\ src = <<>>

\* C12: NetworkLittleEndian i32 read of FF FF FF FF 0F, the bytes write_i32
\* emits for the minimum i32, returns -2^31.
C12_MinDecode ==
    (enc = "NetworkLittleEndian" /\ res.op = "i32" /\ Arg = <<255, 255, 255, 255, 15>>) =>
        /\ res.ok
        /\ Val = MinOf(32)
        /\ NetworkLittleEndian_write_i32(Unbounded, MinOf(32)).out.buf = Arg

====
